---- MODULE Spec2Model ----
(***************************************************************************)
(* A model of testapp-rs/src/main.rs: the program builds 128 feature rows  *)
(* and 128 labels, constructs an lgbm Dataset from the rows, attaches the  *)
(* labels, wraps the dataset in an Arc and constructs a Booster from it.   *)
(* Every fallible call into the lgbm crate is followed by unwrap().        *)
(*                                                                         *)
(* The lgbm crate itself is not part of the program text: whether one of   *)
(* its calls returns Ok or Err is a nondeterministic choice here, and the  *)
(* model records only what main hands to a call and what main does with    *)
(* the result.                                                             *)
(***************************************************************************)
EXTENDS Integers, Sequences, FiniteSets, TLC

VARIABLES
    pc,       \* position of the single thread of control in main
    p,        \* the local `p`: the Parameters value
    fx,       \* next element of the range 0..128 inside train_features
    feats,    \* the Vec<[f64; 1]> train_features is collecting / has returned
    mat,      \* the MatBuf built from the rows
    lx,       \* next element of the range 0..128 inside train_labels
    labs,     \* the Vec<f32> train_labels is collecting / has returned
    train,    \* the Dataset: what main has put into it, and who owns it
    arc,      \* number of Arc handles main has created for the dataset
    booster,  \* the local `_b`
    log       \* the lgbm calls made so far, in order, with their outcome

vars == <<pc, p, fx, feats, mat, lx, labs, train, arc, booster, log>>

----------------------------------------------------------------------------
(* Program constants *)

\* the range 0..128 of train_features
FeatureCount == 128

\* mutant of LabelCount: the range of train_labels written as 0..127
LabelCountOffByOne == 128 - 1

\* the range 0..128 of train_labels
LabelCount == 128

\* the divisor of x % 3 in both generators
Modulus == 3

\* the width of a row, [f64; 1]
RowWidth == 1

----------------------------------------------------------------------------
(* Values *)

\* `n as f64`: an i32 converted to a 64-bit float (exact for every i32)
AsF64(n) == [bits |-> 64, val |-> n]

\* `n as f32`: an i32 converted to a 32-bit float (exact below 2^24)
AsF32(n) == [bits |-> 32, val |-> n]

\* the closure of train_features: |x| [(x % 3) as f64]
FeatureRow(x) == << AsF64(x % Modulus) >>

\* the closure of train_labels: |x| (x % 3) as f32
LabelValue(x) == AsF32(x % Modulus)

NoDataset == [state |-> "none", owner |-> "none", rows |-> << >>,
              hasLabel |-> FALSE, label |-> << >>]

NoParams == [built |-> FALSE, opts |-> {}]

NoMat == [built |-> FALSE, nrow |-> 0, ncol |-> 0, data |-> << >>]

\* one entry of the call log
Call(op, ok, usesP) ==
    [op |-> op, ok |-> ok, usesP |-> usesP,
     popts |-> IF usesP THEN p.opts ELSE {}]

----------------------------------------------------------------------------
Init ==
    /\ pc = "l7_params"
    /\ p = NoParams
    /\ fx = 0
    /\ feats = << >>
    /\ mat = NoMat
    /\ lx = 0
    /\ labs = << >>
    /\ train = NoDataset
    /\ arc = 0
    /\ booster = "none"
    /\ log = << >>

\* a panic raised by unwrap(): the stack unwinds, every live local is dropped
\* and the process ends
Panic ==
    /\ pc' = "aborted"
    /\ p' = [p EXCEPT !.built = FALSE]
    /\ train' = IF train.owner = "main"
                THEN [train EXCEPT !.state = "released", !.owner = "none"]
                ELSE train

\* mutant of ParametersNew: an option is pushed onto the new parameter set
ParametersNewWithOption ==
    /\ pc = "l7_params"
    /\ p' = [built |-> TRUE, opts |-> {"num_iterations"}]
    /\ log' = Append(log, [op |-> "Parameters::new", ok |-> TRUE,
                           usesP |-> FALSE, popts |-> {}])
    /\ pc' = "l8_features"
    /\ UNCHANGED <<fx, feats, mat, lx, labs, train, arc, booster>>

\* line 7: let p = Parameters::new();
ParametersNew ==
    /\ pc = "l7_params"
    /\ p' = [built |-> TRUE, opts |-> {}]
    /\ log' = Append(log, [op |-> "Parameters::new", ok |-> TRUE,
                           usesP |-> FALSE, popts |-> {}])
    /\ pc' = "l8_features"
    /\ UNCHANGED <<fx, feats, mat, lx, labs, train, arc, booster>>

\* line 14: (0..128).map(|x| [(x % 3) as f64]).collect(), one element at a time
TrainFeaturesStep ==
    /\ pc = "l8_features"
    /\ fx < FeatureCount
    /\ feats' = Append(feats, FeatureRow(fx))
    /\ fx' = fx + 1
    /\ UNCHANGED <<pc, p, mat, lx, labs, train, arc, booster, log>>

\* line 8: MatBuf::from_rows(train_features()), once the range is exhausted
MatBufFromRows ==
    /\ pc = "l8_features"
    /\ fx = FeatureCount
    /\ mat' = [built |-> TRUE, nrow |-> Len(feats), ncol |-> RowWidth,
               data |-> feats]
    /\ pc' = "l8_from_mat"
    /\ UNCHANGED <<p, fx, feats, lx, labs, train, arc, booster, log>>

\* mutant of DatasetFromMat: the set_field line is missing, control goes from
\* the dataset's construction straight to line 10
DatasetFromMatSkipsLabel ==
    /\ pc = "l8_from_mat"
    /\ \E ok \in BOOLEAN :
         /\ log' = Append(log, Call("Dataset::from_mat", ok, TRUE))
         /\ \/ /\ ok
               /\ train' = [state |-> "live", owner |-> "main",
                            rows |-> mat.data, hasLabel |-> FALSE,
                            label |-> << >>]
               /\ pc' = "l10_arc_new"
               /\ UNCHANGED p
            \/ /\ ~ok
               /\ Panic
    /\ UNCHANGED <<fx, feats, mat, lx, labs, arc, booster>>

\* mutant of DatasetFromMat: the new dataset is wrapped in the Arc at once,
\* before its label is attached
DatasetFromMatShared ==
    /\ pc = "l8_from_mat"
    /\ \E ok \in BOOLEAN :
         /\ log' = Append(log, Call("Dataset::from_mat", ok, TRUE))
         /\ \/ /\ ok
               /\ train' = [state |-> "live", owner |-> "arc",
                            rows |-> mat.data, hasLabel |-> FALSE,
                            label |-> << >>]
               /\ arc' = arc + 1
               /\ pc' = "l9_labels"
               /\ UNCHANGED p
            \/ /\ ~ok
               /\ arc' = arc
               /\ Panic
    /\ UNCHANGED <<fx, feats, mat, lx, labs, booster>>

\* mutant of DatasetFromMat: an Err is answered by building the rows again
\* and calling from_mat once more instead of unwrap()
DatasetFromMatRetry ==
    /\ pc = "l8_from_mat"
    /\ \E ok \in BOOLEAN :
         /\ log' = Append(log, Call("Dataset::from_mat", ok, TRUE))
         /\ \/ /\ ok
               /\ train' = [state |-> "live", owner |-> "main",
                            rows |-> mat.data, hasLabel |-> FALSE,
                            label |-> << >>]
               /\ pc' = "l9_labels"
               /\ UNCHANGED <<p, fx, feats, mat>>
            \/ /\ ~ok
               /\ pc' = "l8_features"
               /\ fx' = 0
               /\ feats' = << >>
               /\ mat' = NoMat
               /\ UNCHANGED <<p, train>>
    /\ UNCHANGED <<lx, labs, arc, booster>>

\* line 8: let mut train = Dataset::from_mat(&mat, None, &p).unwrap();
DatasetFromMat ==
    /\ pc = "l8_from_mat"
    /\ \E ok \in BOOLEAN :
         /\ log' = Append(log, Call("Dataset::from_mat", ok, TRUE))
         /\ \/ /\ ok
               /\ train' = [state |-> "live", owner |-> "main",
                            rows |-> mat.data, hasLabel |-> FALSE,
                            label |-> << >>]
               /\ pc' = "l9_labels"
               /\ UNCHANGED p
            \/ /\ ~ok
               /\ Panic
    /\ UNCHANGED <<fx, feats, mat, lx, labs, arc, booster>>

\* mutant of TrainLabelsStep: the label of row x is computed from x + 1
TrainLabelsStepOffByOne ==
    /\ pc = "l9_labels"
    /\ lx < LabelCount
    /\ labs' = Append(labs, LabelValue(lx + 1))
    /\ lx' = lx + 1
    /\ UNCHANGED <<pc, p, fx, feats, mat, train, arc, booster, log>>

\* line 18: (0..128).map(|x| (x % 3) as f32).collect(), one element at a time
TrainLabelsStep ==
    /\ pc = "l9_labels"
    /\ lx < LabelCount
    /\ labs' = Append(labs, LabelValue(lx))
    /\ lx' = lx + 1
    /\ UNCHANGED <<pc, p, fx, feats, mat, train, arc, booster, log>>

\* line 9: train_labels() returns once the range is exhausted
TrainLabelsReturn ==
    /\ pc = "l9_labels"
    /\ lx = LabelCount
    /\ pc' = "l9_set_field"
    /\ UNCHANGED <<p, fx, feats, mat, lx, labs, train, arc, booster, log>>

\* mutant of SetField: the Result of set_field is discarded instead of
\* unwrapped, so main goes on after an Err
SetFieldIgnoresErr ==
    /\ pc = "l9_set_field"
    /\ \E ok \in BOOLEAN :
         /\ log' = Append(log, Call("Dataset::set_field", ok, FALSE))
         /\ train' = IF ok
                     THEN [train EXCEPT !.hasLabel = TRUE, !.label = labs]
                     ELSE train
         /\ pc' = "l10_arc_new"
    /\ UNCHANGED <<p, fx, feats, mat, lx, labs, arc, booster>>

\* line 9: train.set_field(Field::LABEL, &train_labels()).unwrap();
SetField ==
    /\ pc = "l9_set_field"
    /\ \E ok \in BOOLEAN :
         /\ log' = Append(log, Call("Dataset::set_field", ok, FALSE))
         /\ \/ /\ ok
               /\ train' = [train EXCEPT !.hasLabel = TRUE, !.label = labs]
               /\ pc' = "l10_arc_new"
               /\ UNCHANGED p
            \/ /\ ~ok
               /\ Panic
    /\ UNCHANGED <<fx, feats, mat, lx, labs, arc, booster>>

\* line 10: Arc::new(train): the dataset is moved into a new Arc
ArcNew ==
    /\ pc = "l10_arc_new"
    /\ train' = [train EXCEPT !.owner = "arc"]
    /\ arc' = arc + 1
    /\ pc' = "l10_booster_new"
    /\ UNCHANGED <<p, fx, feats, mat, lx, labs, booster, log>>

\* line 10: let _b = Booster::new(<the Arc>, &p).unwrap();
\* the Arc is moved into the call, so from here on it belongs to lgbm
BoosterNew ==
    /\ pc = "l10_booster_new"
    /\ \E ok \in BOOLEAN :
         /\ log' = Append(log, Call("Booster::new", ok, TRUE))
         /\ \/ /\ ok
               /\ booster' = "live"
               /\ train' = [train EXCEPT !.owner = "lgbm"]
               /\ pc' = "l11_end"
               /\ UNCHANGED p
            \/ /\ ~ok
               /\ booster' = booster
               /\ pc' = "aborted"
               /\ p' = [p EXCEPT !.built = FALSE]
               /\ train' = [train EXCEPT !.owner = "lgbm"]
    /\ UNCHANGED <<fx, feats, mat, lx, labs, arc>>

\* line 11: the end of main drops _b, then p
MainReturn ==
    /\ pc = "l11_end"
    /\ booster' = "released"
    /\ p' = [p EXCEPT !.built = FALSE]
    /\ pc' = "exit"
    /\ UNCHANGED <<fx, feats, mat, lx, labs, train, arc, log>>

Next ==
    \/ ParametersNew
    \/ TrainFeaturesStep
    \/ MatBufFromRows
    \/ DatasetFromMat
    \/ TrainLabelsStep
    \/ TrainLabelsReturn
    \/ SetField
    \/ ArcNew
    \/ BoosterNew
    \/ MainReturn

Spec == Init /\ [][Next]_vars

\* main is one thread that runs to completion: a step that can be taken is taken
FairSpec == Spec /\ WF_vars(Next)

----------------------------------------------------------------------------
(* Helpers of the properties *)

CallOrder == << "Parameters::new", "Dataset::from_mat",
                "Dataset::set_field", "Booster::new" >>

Final == {"exit", "aborted"}

\* how many lgbm calls have returned Ok when control is at a position
CallsBefore(at) ==
    CASE at = "l7_params" -> 0
      [] at \in {"l8_features", "l8_from_mat"} -> 1
      [] at \in {"l9_labels", "l9_set_field"} -> 2
      [] at \in {"l10_arc_new", "l10_booster_new"} -> 3
      [] OTHER -> 4

Called(op) == \E i \in 1..Len(log) : log[i].op = op

Failed(op) == \E i \in 1..Len(log) : log[i].op = op /\ ~log[i].ok

TimesCalled(op) == Cardinality({i \in 1..Len(log) : log[i].op = op})

----------------------------------------------------------------------------
(* C3: the lgbm calls of a run are made in the order Parameters::new,      *)
(* Dataset::from_mat, Dataset::set_field, Booster::new: the calls made so  *)
(* far are always a prefix of that order (so none is made twice), every    *)
(* call before the latest one returned Ok, and while the run has not       *)
(* aborted the number of calls made is the one the position in main        *)
(* implies.                                                                *)
StepsInFixedOrder ==
    /\ Len(log) <= Len(CallOrder)
    /\ \A i \in 1..Len(log) :
         /\ log[i].op = CallOrder[i]
         /\ (i < Len(log) => log[i].ok)
    /\ (pc # "aborted" => Len(log) = CallsBefore(pc))

StepsInFixedOrderWitness ==
    /\ pc = "l11_end"
    /\ Len(log) = 4
    /\ log[4].op = "Booster::new"

(* C4: a failing call aborts the run at that call: a call that returned    *)
(* Err is the last call of the run and the run is in the aborted state,    *)
(* and the aborted state is only entered that way. After a failed          *)
(* Dataset::from_mat no label is generated or attached; after a failed     *)
(* from_mat or set_field no Arc and no booster is ever constructed.        *)
AbortOnFirstError ==
    /\ \A i \in 1..Len(log) :
         ~log[i].ok => /\ i = Len(log)
                       /\ pc = "aborted"
                       /\ booster = "none"
    /\ (pc = "aborted" => Len(log) > 0 /\ ~log[Len(log)].ok)
    /\ (Failed("Dataset::from_mat") =>
            /\ train.state = "none"
            /\ lx = 0 /\ labs = << >>
            /\ ~Called("Dataset::set_field"))
    /\ (Failed("Dataset::from_mat") \/ Failed("Dataset::set_field") =>
            /\ arc = 0
            /\ ~Called("Booster::new"))
    /\ (Failed("Dataset::set_field") => ~train.hasLabel)

AbortOnFirstErrorWitness ==
    /\ pc = "aborted"
    /\ Failed("Dataset::set_field")

(* C5: whenever Booster::new is about to be called or has been called, the *)
(* dataset handed to it holds 128 rows and a label field with as many      *)
(* labels as rows.                                                         *)
BoosterGetsPopulatedDataset ==
    (pc = "l10_booster_new" \/ Called("Booster::new")) =>
        /\ train.state = "live"
        /\ Len(train.rows) = 128
        /\ train.hasLabel
        /\ Len(train.label) = Len(train.rows)
        /\ Len(train.label) = 128

BoosterGetsPopulatedDatasetWitness ==
    /\ Called("Booster::new")
    /\ booster = "live"
    /\ Len(train.label) = 128

(* C7: the dataset is changed only while main owns it exclusively: a step  *)
(* that changes its label field starts and ends with no Arc around it, and *)
(* once it is wrapped in the Arc its rows and fields never change again.   *)
DatasetFrozenOnceShared ==
    [][ /\ (arc >= 1 \/ train.owner \in {"arc", "lgbm"} =>
               /\ train'.rows = train.rows
               /\ train'.label = train.label
               /\ train'.hasLabel = train.hasLabel)
        /\ (train'.label # train.label \/ train'.hasLabel # train.hasLabel =>
               /\ arc = 0 /\ arc' = 0
               /\ train.owner = "main" /\ train'.owner = "main")
      ]_vars

DatasetFrozenOnceSharedWitness ==
    /\ arc = 1
    /\ train.owner = "lgbm"
    /\ train.hasLabel
    /\ pc = "exit"

(* C8: the parameter set holds no option from its construction on, and the *)
(* calls that take it (Dataset::from_mat and Booster::new, and only they)  *)
(* are passed that same empty set.                                         *)
ParametersDefaultsOnly ==
    /\ p.opts = {}
    /\ (pc \notin {"l7_params"} \cup Final => p.built)
    /\ \A i \in 1..Len(log) :
         /\ log[i].usesP <=> log[i].op \in {"Dataset::from_mat", "Booster::new"}
         /\ log[i].popts = {}

ParametersDefaultsOnlyWitness ==
    /\ p.built
    /\ Called("Dataset::from_mat")
    /\ \E i \in 1..Len(log) : log[i].op = "Booster::new" /\ log[i].usesP

(* C9: train_features yields 128 rows of width 1 with row x holding x % 3, *)
(* train_labels yields 128 values with entry x equal to x % 3; so label x  *)
(* equals the feature of row x and every value is 0, 1 or 2. While a       *)
(* vector is being collected it is the prefix of that result.              *)
TrainDataShape ==
    /\ Len(feats) = fx
    /\ Len(labs) = lx
    /\ \A i \in 1..Len(feats) :
         /\ Len(feats[i]) = 1
         /\ feats[i][1].val = (i - 1) % 3
         /\ feats[i][1].val \in {0, 1, 2}
    /\ \A i \in 1..Len(labs) :
         /\ labs[i].val = (i - 1) % 3
         /\ labs[i].val \in {0, 1, 2}
         /\ i <= Len(feats) /\ labs[i].val = feats[i][1].val
    /\ (pc \notin {"l7_params", "l8_features"} => Len(feats) = 128)
    /\ (pc \in {"l9_set_field", "l10_arc_new", "l10_booster_new",
                "l11_end", "exit"} =>
            Len(labs) = 128 /\ Len(labs) = Len(feats))

TrainDataShapeWitness ==
    /\ pc = "l9_set_field"
    /\ Len(feats) = 128
    /\ Len(labs) = 128
    /\ labs[128].val = 1

(* C10: every run of main ends, in the exit state with the booster         *)
(* released or in the aborted state, and on the way each of the four lgbm  *)
(* calls is made at most once.                                             *)
MainTerminates ==
    /\ [](\A i \in 1..Len(CallOrder) : TimesCalled(CallOrder[i]) <= 1)
    /\ [](pc = "exit" => booster = "released" /\ Called("Booster::new"))
    /\ <>(pc \in Final)

MainTerminatesWitness ==
    /\ pc = "exit"
    /\ booster = "released"
    /\ \A i \in 1..Len(CallOrder) : TimesCalled(CallOrder[i]) = 1

====
